---- MODULE Spec2Model ----
(***************************************************************************)
(* Model of HISIM-IMC/Module_AI_Map/util_chip/layout.py: TierLayout and    *)
(* ChipletLayout (construction, uniform factory, accessors, dict           *)
(* serialisation, index addressing), and what a caller may do with the     *)
(* lists and dicts it holds.                                               *)
(*                                                                         *)
(* Python lists are objects: `heap` holds every list of tiers by address,  *)
(* the instance's _stacks is a sequence of addresses.  A call of a method  *)
(* is one action; it records the call in `op` and its outcome in `result`. *)
(***************************************************************************)
EXTENDS Integers, Sequences, FiniteSets, TLC

VARIABLES heap, self_stacks, args, built, op, result

vars == <<heap, self_stacks, args, built, op, result>>

(* ------------------------------ bounds -------------------------------- *)

\* largest number of stacks, and of tiers per stack, a caller passes
MaxStacks == 2
MaxTiers == 2
\* rows and cols of the tiers a caller describes range over 0..MaxDim
MaxDim == 3
\* origins range over -MaxOrigin..MaxOrigin
MaxOrigin == 1
\* tiles_per_tier passed to uniform ranges over -1..MaxTiles
MaxTiles == 10

(* ------------------------- outcomes of a call -------------------------- *)

Return(v) == [kind |-> "return", val |-> v]
Raise(e) == [kind |-> "raise", val |-> e]
NoRet == [kind |-> "none", val |-> 0]
NoOp == [name |-> "none", args |-> <<>>]

Returned(r) == r.kind = "return"
Raised(r, e) == r.kind = "raise" /\ r.val = e

Min2(a, b) == IF a <= b THEN a ELSE b
Max2(a, b) == IF a >= b THEN a ELSE b

(* ------------------------------ TierLayout ----------------------------- *)

\* the dataclass fields
TierLayout(r, c, orow, ocol) ==
  [rows |-> r, cols |-> c, origin_row |-> orow, origin_col |-> ocol]

\* __post_init__: the construction of a TierLayout raises on rows <= 0 or cols <= 0
PostInit(t) ==
  IF t.rows <= 0 \/ t.cols <= 0 THEN Raise("ValueError") ELSE Return(t)

\* the capacity property
Capacity(t) == t.rows * t.cols

(* --------------------------- Python sequences -------------------------- *)

\* seq[i] of a Python list: indices 0..len-1, and -len..-1 counted from the end
InRange(seq, i) == -Len(seq) <= i /\ i < Len(seq)
At(seq, i) == seq[IF i >= 0 THEN i + 1 ELSE Len(seq) + i + 1]
Subscript(seq, i) == IF InRange(seq, i) THEN Return(At(seq, i)) ELSE Raise("IndexError")

\* the lists of tiers the instance's _stacks refers to
Deref(h, addrs) == [i \in 1..Len(addrs) |-> h[addrs[i]]]
Stacks == Deref(heap, self_stacks)
HasInstance == self_stacks # <<>>

(* ------------------------ ChipletLayout.__init__ ----------------------- *)

\* the checks of __init__ on the sequences passed: stacks is a sequence of lists of tiers
InitOutcome(stacks) ==
  IF Len(stacks) = 0 THEN Raise("ValueError")
  ELSE IF \E i \in 1..Len(stacks) : Len(stacks[i]) = 0 THEN Raise("ValueError")
  ELSE IF \E i \in 1..Len(stacks) : Len(stacks[i]) # Len(stacks[1]) THEN Raise("ValueError")
  ELSE Return(stacks)

\* self._stacks = [list(stack) for stack in stacks]: every stack is copied to a new list
CopyAddrs(h, n) == [i \in 1..n |-> Len(h) + i]
HeapWithCopies(h, stacks) == h \o stacks

(* ---------------- Python int and float arithmetic of uniform ----------- *)
(* uniform computes rows and cols with math.sqrt, math.ceil and true       *)
(* division, which work on IEEE-754 doubles (53 significant bits), while   *)
(* its argument is a Python int of any size.  Naturals are held here as    *)
(* sequences of bits, least significant first, the last bit 1 (zero is     *)
(* the empty sequence), and a double is m / 2^scale.                       *)

\* the significant bits of a double
MantissaBits == 53
\* the largest binary exponent of a finite double: values reach below 2^1024
MaxFloatBits == 1024

\* the bits of a natural number n below 2^31, and the number of them
BitLen(n) ==
  IF n \div 2^30 > 0 THEN 31
  ELSE CHOOSE l \in 0..30 : n < 2^l /\ (l = 0 \/ n >= 2^(l - 1))
ToBits(n) == [i \in 1..BitLen(n) |-> (n \div 2^(i - 1)) % 2]

\* the number a sequence of up to 31 bits stands for, by halves
RECURSIVE FromBits(_)
FromBits(b) ==
  IF Len(b) = 0 THEN 0
  ELSE IF Len(b) = 1 THEN b[1]
  ELSE LET h == Len(b) \div 2
       IN FromBits(SubSeq(b, 1, h)) + 2^h * FromBits(SubSeq(b, h + 1, Len(b)))

\* the bits up to the highest 1
HighBit(b) ==
  CHOOSE i \in 0..Len(b) : (i = 0 \/ b[i] = 1) /\ \A j \in (i + 1)..Len(b) : b[j] = 0
Norm(b) == LET t == SubSeq(b, 1, Len(b)) IN SubSeq(t, 1, HighBit(t))
Bit(b, i) == IF i <= Len(b) THEN b[i] ELSE 0

Pow2Bits(e) == [i \in 1..(e + 1) |-> IF i = e + 1 THEN 1 ELSE 0]
ShiftL(b, n) == IF b = <<>> THEN <<>> ELSE [i \in 1..n |-> 0] \o b
ShiftR(b, n) == IF Len(b) <= n THEN <<>> ELSE SubSeq(b, n + 1, Len(b))
LowBits(b, n) == Norm(SubSeq(b, 1, Min2(n, Len(b))))
IsOdd(b) == b # <<>> /\ b[1] = 1

Less(a, b) ==
  \/ Len(a) < Len(b)
  \/ /\ Len(a) = Len(b)
     /\ \E i \in 1..Len(a) :
          /\ a[i] < b[i]
          /\ \A j \in (i + 1)..Len(a) : a[j] = b[j]
Leq(a, b) == a = b \/ Less(a, b)

\* a + b: the carry into bit i is decided by the nearest lower bit where a and b do
\* not hold exactly one 1 (d bits below, none when d = i), and is 1 when both hold 1
CarryIn(a, b, i) ==
  LET d == CHOOSE d \in 1..i :
             /\ d = i \/ Bit(a, i - d) + Bit(b, i - d) # 1
             /\ \A e \in 1..(d - 1) : Bit(a, i - e) + Bit(b, i - e) = 1
  IN d < i /\ Bit(a, i - d) + Bit(b, i - d) = 2
Add(a, b) ==
  Norm([i \in 1..(Max2(Len(a), Len(b)) + 1) |->
          (Bit(a, i) + Bit(b, i) + (IF CarryIn(a, b, i) THEN 1 ELSE 0)) % 2])

\* a - b for a >= b: the borrow into bit i is decided by the nearest lower bit where a
\* and b differ, and is 1 when a holds 0 there
BorrowIn(a, b, i) ==
  LET d == CHOOSE d \in 1..i :
             /\ d = i \/ Bit(a, i - d) # Bit(b, i - d)
             /\ \A e \in 1..(d - 1) : Bit(a, i - e) = Bit(b, i - e)
  IN d < i /\ Bit(a, i - d) < Bit(b, i - d)
Sub(a, b) ==
  Norm([i \in 1..Len(a) |->
          (Bit(a, i) - Bit(b, i) - (IF BorrowIn(a, b, i) THEN 1 ELSE 0)) % 2])

(* The three loops below run over the bits of a number.  Each runs in blocks   *)
(* of eight steps, a block being finished before the next one starts, and each *)
(* step takes the value of the step before it (by testing what the loop keeps  *)
(* true of it), so that an evaluation nests a few steps deep and not as deep   *)
(* as the number is long.                                                      *)

\* a * b, by the bits of b from bit i down to bit lo + 1; acc is the product so far
RECURSIVE MulRun(_, _, _, _, _)
MulRun(a, b, i, lo, acc) ==
  IF i = lo THEN acc
  ELSE IF acc = <<>> THEN MulRun(a, b, i - 1, lo, IF b[i] = 1 THEN a ELSE <<>>)
  ELSE MulRun(a, b, i - 1, lo, Add(ShiftL(acc, 1), IF b[i] = 1 THEN a ELSE <<>>))
RECURSIVE MulRec(_, _, _, _)
MulRec(a, b, i, acc) ==
  IF i = 0 THEN acc
  ELSE IF acc = <<>> THEN MulRec(a, b, Max2(0, i - 8), MulRun(a, b, i, Max2(0, i - 8), <<>>))
  ELSE MulRec(a, b, Max2(0, i - 8), MulRun(a, b, i, Max2(0, i - 8), acc))
Mul(a, b) == MulRec(a, b, Len(b), <<>>)

\* long division by b >= 1, one bit of a: qr is <<quotient, remainder>> so far
DivStep(a, b, i, qr) ==
  LET r2 == Norm(<<a[i]>> \o qr[2])
  IN IF Leq(b, r2) THEN <<Norm(<<1>> \o qr[1]), Sub(r2, b)>>
     ELSE <<Norm(<<0>> \o qr[1]), r2>>
\* from bit i of a down to bit lo + 1; the remainder stays below b
RECURSIVE DivRun(_, _, _, _, _)
DivRun(a, b, i, lo, qr) ==
  IF i = lo \/ ~Less(qr[2], b) THEN qr
  ELSE DivRun(a, b, i - 1, lo, DivStep(a, b, i, qr))
RECURSIVE DivRec(_, _, _, _)
DivRec(a, b, i, qr) ==
  IF i = 0 \/ ~Less(qr[2], b) THEN qr
  ELSE DivRec(a, b, Max2(0, i - 8), DivRun(a, b, i, Max2(0, i - 8), qr))
\* the bits of a above the lowest Len(a) - Len(b) + 1 are below b: the division starts
\* with them as the remainder
DivMod(a, b) ==
  IF Len(a) < Len(b) THEN <<(<<>>), a>>
  ELSE DivRec(a, b, Len(a) - Len(b) + 1, <<(<<>>), ShiftR(a, Len(a) - Len(b) + 1)>>)

\* the integer square root, two bits of n (pair i): sr is <<root, remainder>> so far
SqrtStep(n, i, sr) ==
  LET hi == IF 2 * i <= Len(n) THEN n[2 * i] ELSE 0
      r2 == Norm(<<n[2 * i - 1], hi>> \o sr[2])
      trial == Norm(<<1, 0>> \o sr[1])
  IN IF Leq(trial, r2) THEN <<Norm(<<1>> \o sr[1]), Sub(r2, trial)>>
     ELSE <<Norm(<<0>> \o sr[1]), r2>>
\* from pair i of n down to pair lo + 1; the remainder stays at most twice the root
RECURSIVE SqrtRun(_, _, _, _)
SqrtRun(n, i, lo, sr) ==
  IF i = lo \/ ~Leq(sr[2], ShiftL(sr[1], 1)) THEN sr
  ELSE SqrtRun(n, i - 1, lo, SqrtStep(n, i, sr))
RECURSIVE SqrtRec(_, _, _)
SqrtRec(n, i, sr) ==
  IF i = 0 \/ ~Leq(sr[2], ShiftL(sr[1], 1)) THEN sr
  ELSE SqrtRec(n, Max2(0, i - 8), SqrtRun(n, i, Max2(0, i - 8), sr))
\* <<floor(sqrt(n)), n - floor(sqrt(n))^2>>
ISqrtRem(n) == SqrtRec(n, (Len(n) + 1) \div 2, <<(<<>>), (<<>>)>>)

\* float(k) of a Python int k >= 1: k rounded to 53 significant bits, ties to even;
\* OverflowError when the result is no finite double
FloatOfInt(k) ==
  LET t == Len(k) - MantissaBits
      q == ShiftR(k, t)
      up == k[t] = 1 /\ (IsOdd(q) \/ LowBits(k, t - 1) # <<>>)
      f == IF t <= 0 THEN k ELSE ShiftL(IF up THEN Add(q, <<1>>) ELSE q, t)
  IN IF Len(f) > MaxFloatBits THEN Raise("OverflowError")
     ELSE Return([m |-> f, scale |-> 0])

\* math.sqrt of a double that is a whole number f >= 1 below 2^106: the correctly
\* rounded root, m / 2^scale with m of 53 bits
SqrtFloat(f) ==
  LET s == MantissaBits - ((Len(f) + 1) \div 2)
      qr == ISqrtRem(ShiftL(f, 2 * s))
      up == Less(qr[1], qr[2])
  IN [m |-> IF up THEN Add(qr[1], <<1>>) ELSE qr[1], scale |-> s]

\* a / b of Python ints a >= b >= 1: the correctly rounded quotient (ties to even)
TrueDiv(a, b) ==
  LET s0 == MantissaBits - (Len(a) - Len(b))
      s == IF Less(a, ShiftL(b, Len(a) - Len(b))) THEN s0 ELSE s0 - 1
      num == IF s >= 0 THEN ShiftL(a, s) ELSE a
      den == IF s >= 0 THEN b ELSE ShiftL(b, -s)
      qr == DivMod(num, den)
      twice == ShiftL(qr[2], 1)
      up == Less(den, twice) \/ (twice = den /\ IsOdd(qr[1]))
      m == IF up THEN Add(qr[1], <<1>>) ELSE qr[1]
  IN IF s >= 0 THEN [m |-> m, scale |-> s] ELSE [m |-> ShiftL(m, -s), scale |-> 0]

\* int(math.ceil(x)) of a double x = m / 2^scale
CeilFloat(x) ==
  LET q == ShiftR(x.m, x.scale)
  IN IF LowBits(x.m, x.scale) = <<>> THEN q ELSE Add(q, <<1>>)

(* -------------------------- ChipletLayout.uniform ---------------------- *)

\* a Python int: its sign and the bits of its magnitude
PyInt(n) == [neg |-> n < 0, mag |-> ToBits(IF n < 0 THEN -n ELSE n)]
IsPositive(k) == ~k.neg /\ k.mag # <<>>

\* rows = int(math.ceil(math.sqrt(tiles_per_tier))),
\* cols = int(math.ceil(tiles_per_tier / rows)), for tiles_per_tier >= 1 below 2^62
\* (math.sqrt takes float(tiles_per_tier); the division is of the two ints)
UniformDims(k) ==
  LET f == FloatOfInt(k)
      rows == CeilFloat(SqrtFloat(f.val.m))
      cols == CeilFloat(TrueDiv(k, rows))
  IN IF f.kind = "raise" THEN f ELSE Return(<<FromBits(rows), FromBits(cols)>>)

\* the stacks uniform passes to cls: num_stacks lists of num_tiers times the same tier
UniformStacks(num_stacks, num_tiers, dims) ==
  [s \in 1..num_stacks |-> [t \in 1..num_tiers |-> TierLayout(dims[1], dims[2], 0, 0)]]

\* uniform(num_stacks, num_tiers, tiles_per_tier): a raise, or the stacks of the instance
UniformOutcome(num_stacks, num_tiers, tiles_per_tier, dims) ==
  IF num_stacks <= 0 \/ num_tiers <= 0 THEN Raise("ValueError")
  ELSE IF ~IsPositive(tiles_per_tier) THEN Raise("ValueError")
  ELSE IF dims.kind = "raise" THEN dims
  ELSE IF PostInit(TierLayout(dims.val[1], dims.val[2], 0, 0)).kind = "raise"
    THEN PostInit(TierLayout(dims.val[1], dims.val[2], 0, 0))
  ELSE InitOutcome(UniformStacks(num_stacks, num_tiers, dims.val))

(* ------------------------------ accessors ------------------------------ *)
(* Each takes the instance's stacks S (a sequence of sequences of tiers)   *)
(* and gives the outcome of the call.                                      *)

StackCount(S) == Len(S)
TierCount(S) == Len(S[1])

\* tier(stack_idx, tier_idx) = self._stacks[stack_idx][tier_idx]
Tier(S, stack_idx, tier_idx) ==
  IF ~InRange(S, stack_idx) THEN Raise("IndexError")
  ELSE Subscript(At(S, stack_idx), tier_idx)

\* stack(stack_idx) = self._stacks[stack_idx], the list itself: here its contents
Stack(S, stack_idx) == Subscript(S, stack_idx)

TierCapacity(S, stack_idx, tier_idx) ==
  LET t == Tier(S, stack_idx, tier_idx)
  IN IF Returned(t) THEN Return(Capacity(t.val)) ELSE t

TierShape(S, stack_idx, tier_idx) ==
  LET t == Tier(S, stack_idx, tier_idx)
  IN IF Returned(t) THEN Return(<<t.val.rows, t.val.cols>>) ELSE t

TierOrigin(S, stack_idx, tier_idx) ==
  LET t == Tier(S, stack_idx, tier_idx)
  IN IF Returned(t) THEN Return(<<t.val.origin_row, t.val.origin_col>>) ELSE t

\* iter_tiers(): every tier, stack by stack
RECURSIVE Flatten(_)
Flatten(S) == IF S = <<>> THEN <<>> ELSE Head(S) \o Flatten(Tail(S))
IterTiers(S) == Flatten(S)

SetMax(X) == CHOOSE x \in X : \A y \in X : y <= x
SetMin(X) == CHOOSE x \in X : \A y \in X : x <= y
RECURSIVE SeqSum(_)
SeqSum(q) == IF q = <<>> THEN 0 ELSE Head(q) + SeqSum(Tail(q))
Range(q) == {q[i] : i \in 1..Len(q)}

\* max(tier.capacity for tier in self.iter_tiers()): max() of nothing raises ValueError
MaxCapacity(S) ==
  IF IterTiers(S) = <<>> THEN Raise("ValueError")
  ELSE Return(SetMax({Capacity(tier) : tier \in Range(IterTiers(S))}))

\* sum(tier.capacity for tier in self.stack(stack_idx))
StackCapacity(S, stack_idx) ==
  LET st == Stack(S, stack_idx)
  IN IF Returned(st) THEN Return(SeqSum([i \in 1..Len(st.val) |-> Capacity(st.val[i])]))
     ELSE st

\* stack_origin: the least origin_row and origin_col of the stack, 0 for an empty one
StackOrigin(S, stack_idx) ==
  LET st == Stack(S, stack_idx)
  IN IF ~Returned(st) THEN st
     ELSE IF st.val = <<>> THEN Return(<<0, 0>>)
     ELSE Return(<<SetMin({tier.origin_row : tier \in Range(st.val)}),
                   SetMin({tier.origin_col : tier \in Range(st.val)})>>)

\* stack_shape: the bounding box of the stack from its own least origin
StackShape(S, stack_idx) ==
  LET st == Stack(S, stack_idx)
      o == StackOrigin(S, stack_idx).val
  IN IF ~Returned(st) THEN st
     ELSE IF st.val = <<>> THEN Return(<<0, 0>>)
     ELSE Return(<<SetMax({tier.origin_row + tier.rows : tier \in Range(st.val)}) - o[1],
                   SetMax({tier.origin_col + tier.cols : tier \in Range(st.val)}) - o[2]>>)

\* global_shape: the loop visits tier(stack, tier) for stack in range(stack_count())
\* and tier in range(tier_count()); a stack shorter than the first raises IndexError,
\* and with no tier visited the assert fails
VisitedTiers(S) ==
  {At(At(S, s), t) : s \in 0..(StackCount(S) - 1), t \in 0..(TierCount(S) - 1)}
\* global_shape over the first stack only
GlobalShapeFirstStack(S) ==
  LET first == {At(At(S, 0), t) : t \in 0..(TierCount(S) - 1)}
  IN Return(<<SetMax({t.origin_row + t.rows : t \in first})
                - SetMin({t.origin_row : t \in first}),
              SetMax({t.origin_col + t.cols : t \in first})
                - SetMin({t.origin_col : t \in first})>>)
GlobalShape(S) ==
  IF Len(S) = 0 THEN Return(<<0, 0>>)
  ELSE IF \E s \in 1..Len(S) : Len(S[s]) < TierCount(S) THEN Raise("IndexError")
  ELSE IF TierCount(S) = 0 THEN Raise("AssertionError")
  ELSE LET min_row == SetMin({t.origin_row : t \in VisitedTiers(S)})
           min_col == SetMin({t.origin_col : t \in VisitedTiers(S)})
           max_row == SetMax({t.origin_row + t.rows : t \in VisitedTiers(S)})
           max_col == SetMax({t.origin_col + t.cols : t \in VisitedTiers(S)})
       IN Return(<<max_row - min_row, max_col - min_col>>)

\* position_from_index with the row taken as tile_index div rows
PositionRowByRows(S, stack_idx, tier_idx, tile_index, serpentine, mirror) ==
  LET l == Tier(S, stack_idx, tier_idx)
      layout == l.val
      row0 == tile_index \div layout.rows
      col0 == tile_index % layout.cols
      col1 == IF serpentine /\ row0 % 2 = 1 THEN layout.cols - col0 - 1 ELSE col0
      row == IF mirror THEN layout.rows - row0 - 1 ELSE row0
      col == IF mirror THEN layout.cols - col1 - 1 ELSE col1
  IN IF ~Returned(l) THEN l
     ELSE IF tile_index < 0 \/ tile_index >= Capacity(layout) THEN Raise("IndexError")
     ELSE Return(<<layout.origin_row + row, layout.origin_col + col>>)

\* position_from_index refusing only tile_index > capacity
PositionPastCapacity(S, stack_idx, tier_idx, tile_index, serpentine, mirror) ==
  LET l == Tier(S, stack_idx, tier_idx)
      layout == l.val
      row0 == tile_index \div layout.cols
      col0 == tile_index % layout.cols
      col1 == IF serpentine /\ row0 % 2 = 1 THEN layout.cols - col0 - 1 ELSE col0
      row == IF mirror THEN layout.rows - row0 - 1 ELSE row0
      col == IF mirror THEN layout.cols - col1 - 1 ELSE col1
  IN IF ~Returned(l) THEN l
     ELSE IF tile_index < 0 \/ tile_index > Capacity(layout) THEN Raise("IndexError")
     ELSE Return(<<layout.origin_row + row, layout.origin_col + col>>)

\* position_from_index mirroring first, the serpentine turn on the mirrored row's parity
PositionMirrorFirst(S, stack_idx, tier_idx, tile_index, serpentine, mirror) ==
  LET l == Tier(S, stack_idx, tier_idx)
      layout == l.val
      row0 == tile_index \div layout.cols
      col0 == tile_index % layout.cols
      row == IF mirror THEN layout.rows - row0 - 1 ELSE row0
      col1 == IF mirror THEN layout.cols - col0 - 1 ELSE col0
      col == IF serpentine /\ row % 2 = 1 THEN layout.cols - col1 - 1 ELSE col1
  IN IF ~Returned(l) THEN l
     ELSE IF tile_index < 0 \/ tile_index >= Capacity(layout) THEN Raise("IndexError")
     ELSE Return(<<layout.origin_row + row, layout.origin_col + col>>)

\* position_from_index turning the column on every row, the parity test dropped
PositionTurnEveryRow(S, stack_idx, tier_idx, tile_index, serpentine, mirror) ==
  LET l == Tier(S, stack_idx, tier_idx)
      layout == l.val
      row0 == tile_index \div layout.cols
      col0 == tile_index % layout.cols
      col1 == IF serpentine THEN layout.cols - col0 - 1 ELSE col0
      row == IF mirror THEN layout.rows - row0 - 1 ELSE row0
      col == IF mirror THEN layout.cols - col1 - 1 ELSE col1
  IN IF ~Returned(l) THEN l
     ELSE IF tile_index < 0 \/ tile_index >= Capacity(layout) THEN Raise("IndexError")
     ELSE Return(<<layout.origin_row + row, layout.origin_col + col>>)

\* position_from_index(stack_idx, tier_idx, tile_index, serpentine, mirror)
PositionFromIndex(S, stack_idx, tier_idx, tile_index, serpentine, mirror) ==
  LET l == Tier(S, stack_idx, tier_idx)
      layout == l.val
      row0 == tile_index \div layout.cols
      col0 == tile_index % layout.cols
      col1 == IF serpentine /\ row0 % 2 = 1 THEN layout.cols - col0 - 1 ELSE col0
      row == IF mirror THEN layout.rows - row0 - 1 ELSE row0
      col == IF mirror THEN layout.cols - col1 - 1 ELSE col1
  IN IF ~Returned(l) THEN l
     ELSE IF tile_index < 0 \/ tile_index >= Capacity(layout) THEN Raise("IndexError")
     ELSE Return(<<layout.origin_row + row, layout.origin_col + col>>)

(* ------------------------- to_dict and from_dict ----------------------- *)
(* A Python value is a record of one field named after its type: None,     *)
(* bool, int, float (in halves, so 3 is 1.5), str (a sequence of           *)
(* characters), list, dict (a function from its keys).                     *)

PyNone == [NoneType |-> 0]
PyBool(b) == [bool |-> b]
PyIntVal(n) == [int |-> n]
PyFloat(halves) == [float |-> halves]
PyStr(chars) == [str |-> chars]
PyList(items) == [list |-> items]
PyDict(fields) == [dict |-> fields]
TypeOf(x) == CHOOSE k \in DOMAIN x : TRUE

\* isinstance(x, Sequence): a list, and a str too; its items when iterated
IsSequence(x) == TypeOf(x) \in {"list", "str"}
Items(x) == IF TypeOf(x) = "str" THEN [i \in 1..Len(x.str) |-> PyStr(<<x.str[i]>>)] ELSE x.list
\* isinstance(x, Mapping)
IsMapping(x) == TypeOf(x) = "dict"
HasKey(d, k) == k \in DOMAIN d.dict

Digits == <<"0", "1", "2", "3", "4", "5", "6", "7", "8", "9">>
IsDigit(c) == \E d \in 1..10 : Digits[d] = c
DigitVal(c) == (CHOOSE d \in 1..10 : Digits[d] = c) - 1

\* int(str): blanks stripped, an optional sign, then digits with single underscores
\* between them; anything else is a ValueError
Strip(chars) ==
  LET keep == {i \in 1..Len(chars) : chars[i] # " "}
  IN IF keep = {} THEN <<>> ELSE SubSeq(chars, SetMin(keep), SetMax(keep))
IsNumeral(body) ==
  /\ Len(body) > 0
  /\ \A i \in 1..Len(body) : IsDigit(body[i]) \/ body[i] = "_"
  /\ body[1] # "_" /\ body[Len(body)] # "_"
  /\ \A i \in 1..(Len(body) - 1) : ~(body[i] = "_" /\ body[i + 1] = "_")
RECURSIVE NumeralVal(_)
NumeralVal(body) ==
  IF body = <<>> THEN 0
  ELSE LET init == SubSeq(body, 1, Len(body) - 1)
           c == body[Len(body)]
       IN IF c = "_" THEN NumeralVal(init) ELSE 10 * NumeralVal(init) + DigitVal(c)
IntOfStr(chars) ==
  LET s == Strip(chars)
      signed == Len(s) > 0 /\ s[1] \in {"+", "-"}
      body == IF signed THEN Tail(s) ELSE s
  IN IF ~IsNumeral(body) THEN Raise("ValueError")
     ELSE Return(IF signed /\ s[1] = "-" THEN -NumeralVal(body) ELSE NumeralVal(body))

\* int(x)
IntOf(x) ==
  CASE TypeOf(x) = "int" -> Return(x.int)
    [] TypeOf(x) = "bool" -> Return(IF x.bool THEN 1 ELSE 0)
    [] TypeOf(x) = "float" -> Return(IF x.float >= 0 THEN x.float \div 2 ELSE -((-x.float) \div 2))
    [] TypeOf(x) = "str" -> IntOfStr(x.str)
    [] OTHER -> Raise("TypeError")

\* to_dict with the row origin written under both origin keys
TierToDictOneOrigin(tier) ==
  PyDict([rows |-> PyIntVal(tier.rows), cols |-> PyIntVal(tier.cols),
          origin_row |-> PyIntVal(tier.origin_row),
          origin_col |-> PyIntVal(tier.origin_row)])
TierToDict(tier) ==
  PyDict([rows |-> PyIntVal(tier.rows), cols |-> PyIntVal(tier.cols),
          origin_row |-> PyIntVal(tier.origin_row),
          origin_col |-> PyIntVal(tier.origin_col)])
ToDict(S) ==
  PyDict([stacks |-> PyList([s \in 1..Len(S) |->
                       PyList([t \in 1..Len(S[s]) |-> TierToDict(S[s][t])])])])

\* the first outcome of a sequence of outcomes that is a raise, or the returned values
FirstRaise(outs) ==
  LET bad == {i \in 1..Len(outs) : outs[i].kind = "raise"}
  IN IF bad = {} THEN Return([i \in 1..Len(outs) |-> outs[i].val])
     ELSE outs[SetMin(bad)]

\* one tier entry of from_dict: rows, cols, then the two origins, then TierLayout(...)
TierFromDict(tier) ==
  IF ~IsMapping(tier) THEN Raise("ValueError")
  ELSE IF ~HasKey(tier, "rows") THEN Raise("ValueError")
  ELSE IF IntOf(tier.dict["rows"]).kind = "raise" THEN IntOf(tier.dict["rows"])
  ELSE IF ~HasKey(tier, "cols") THEN Raise("ValueError")
  ELSE LET fields == FirstRaise(<<
             IntOf(tier.dict["rows"]),
             IntOf(tier.dict["cols"]),
             IF HasKey(tier, "origin_row") THEN IntOf(tier.dict["origin_row"]) ELSE Return(0),
             IF HasKey(tier, "origin_col") THEN IntOf(tier.dict["origin_col"]) ELSE Return(0)>>)
       IN IF fields.kind = "raise" THEN fields
          ELSE PostInit(TierLayout(fields.val[1], fields.val[2], fields.val[3], fields.val[4]))

StackFromDict(stack) ==
  IF ~IsSequence(stack) THEN Raise("ValueError")
  ELSE FirstRaise([i \in 1..Len(Items(stack)) |-> TierFromDict(Items(stack)[i])])

\* from_dict(data): a raise, or the stacks of the instance
FromDict(data) ==
  IF ~IsMapping(data) THEN Raise("AttributeError")
  ELSE IF ~HasKey(data, "stacks") THEN Raise("ValueError")
  ELSE IF ~IsSequence(data.dict["stacks"]) THEN Raise("ValueError")
  ELSE LET stacks == FirstRaise([i \in 1..Len(Items(data.dict["stacks"])) |->
                                   StackFromDict(Items(data.dict["stacks"])[i])])
       IN IF stacks.kind = "raise" THEN stacks ELSE InitOutcome(stacks.val)

(* ------------------------------- inputs -------------------------------- *)

Dims == 1..MaxDim
Origins == (-MaxOrigin)..MaxOrigin
\* two tiers of different shape and origin, neither within the other, for the layouts
\* of several tiers
BaseTier == TierLayout(1, MaxDim, -MaxOrigin, 0)
PoolTiers == {BaseTier, TierLayout(MaxDim, MaxDim, MaxOrigin, MaxOrigin)}

\* sequences of up to n items: a first one and the others alike
FirstAndRest(X, n) == UNION {{[i \in 1..k |-> IF i = 1 THEN x ELSE y] : x \in X, y \in X} : k \in 0..n}
\* sequences of stacks, valid or not: no stack, empty stacks, stacks of unequal length
PoolInputs == FirstAndRest(FirstAndRest(PoolTiers, MaxTiers), MaxStacks)
\* single tiers at the two extreme origins
CornerInputs ==
  {<<<<TierLayout(r, c, o, -o)>>>> : r \in Dims, c \in Dims, o \in {0, MaxOrigin}}

\* index arguments about the ends of a sequence of up to n items
IndexArgs(n) == {-(n + 1), -n, -1, 0, n - 1, n}
StackIdxs == IndexArgs(MaxStacks)
TierIdxs == IndexArgs(MaxTiers)
TileIdxs == (-1)..(MaxDim * MaxDim)

(* ------------------------------- actions ------------------------------- *)
(* One layout is built, then queried. built records the call that built   *)
(* it, op and result the last call and the outcome the caller holds.       *)

Call(name, a, out) ==
  /\ op' = [name |-> name, args |-> a]
  /\ result' = out
  /\ UNCHANGED <<heap, self_stacks, args, built>>

\* TierLayout(rows, cols, origin_row, origin_col), checked by __post_init__
MakeTier ==
  /\ op = NoOp
  /\ \E r \in 0..MaxDim, c \in 0..MaxDim, orow \in Origins, ocol \in Origins :
       Call("TierLayout", <<r, c, orow, ocol>>, PostInit(TierLayout(r, c, orow, ocol)))

\* the instance cls(stacks) leaves behind: copies of the given lists at fresh addresses
Build(name, a, out, given) ==
  /\ op' = [name |-> name, args |-> a]
  /\ built' = [name |-> name, args |-> a]
  /\ IF Returned(out)
       THEN /\ heap' = HeapWithCopies(given, out.val)
            /\ self_stacks' = CopyAddrs(given, Len(out.val))
            /\ result' = Return("ChipletLayout")
       ELSE /\ heap' = given
            /\ self_stacks' = <<>>
            /\ result' = out
  /\ args' = [i \in 1..Len(given) |-> i]

\* ChipletLayout(stacks), the caller's lists staying on the heap
Construct(Inputs) ==
  /\ op = NoOp
  /\ \E stacks \in Inputs : Build("ChipletLayout", <<stacks>>, InitOutcome(stacks), stacks)

Uniform(NumStacks, NumTiers, Tiles) ==
  /\ op = NoOp
  /\ \E k \in Tiles :
       LET dims == UniformDims(k.mag)
       IN \E ns \in NumStacks, nt \in NumTiers :
            Build("uniform", <<ns, nt, k>>, UniformOutcome(ns, nt, k, dims), <<>>)

FromDictCall(Docs) ==
  /\ op = NoOp
  /\ \E data \in Docs : Build("from_dict", <<data>>, FromDict(data), <<>>)

\* from_dict applied to the dict to_dict returned: the second instance's stacks are
\* the outcome
FromDictOfToDict ==
  /\ HasInstance
  /\ op.name = "to_dict"
  /\ Call("from_dict(to_dict)", <<result.val>>, FromDict(result.val))

StackCountCall == HasInstance /\ Call("stack_count", <<>>, Return(StackCount(Stacks)))
TierCountCall == HasInstance /\ Call("tier_count", <<>>, Return(TierCount(Stacks)))
TierCall(SI, TI) ==
  /\ HasInstance
  /\ \E si \in SI, ti \in TI : Call("tier", <<si, ti>>, Tier(Stacks, si, ti))
\* stack() returns the list self._stacks[stack_idx] itself: its address
StackCall(SI) ==
  /\ HasInstance
  /\ \E si \in SI : Call("stack", <<si>>, Subscript(self_stacks, si))
TierCapacityCall(SI, TI) ==
  /\ HasInstance
  /\ \E si \in SI, ti \in TI : Call("tier_capacity", <<si, ti>>, TierCapacity(Stacks, si, ti))
TierShapeCall(SI, TI) ==
  /\ HasInstance
  /\ \E si \in SI, ti \in TI : Call("tier_shape", <<si, ti>>, TierShape(Stacks, si, ti))
TierOriginCall(SI, TI) ==
  /\ HasInstance
  /\ \E si \in SI, ti \in TI : Call("tier_origin", <<si, ti>>, TierOrigin(Stacks, si, ti))
MaxCapacityCall == HasInstance /\ Call("max_capacity", <<>>, MaxCapacity(Stacks))
StackCapacityCall(SI) ==
  /\ HasInstance
  /\ \E si \in SI : Call("stack_capacity", <<si>>, StackCapacity(Stacks, si))
IterTiersCall == HasInstance /\ Call("iter_tiers", <<>>, Return(IterTiers(Stacks)))
StackOriginCall(SI) ==
  /\ HasInstance
  /\ \E si \in SI : Call("stack_origin", <<si>>, StackOrigin(Stacks, si))
StackShapeCall(SI) ==
  /\ HasInstance
  /\ \E si \in SI : Call("stack_shape", <<si>>, StackShape(Stacks, si))
GlobalShapeCall == HasInstance /\ Call("global_shape", <<>>, GlobalShape(Stacks))
ToDictCall == HasInstance /\ Call("to_dict", <<>>, Return(ToDict(Stacks)))
PositionFromIndexCall(SI, TI, XI) ==
  /\ HasInstance
  /\ \E si \in SI, ti \in TI, x \in XI, serpentine \in BOOLEAN, mirror \in BOOLEAN :
       Call("position_from_index", <<si, ti, x, serpentine, mirror>>,
            PositionFromIndex(Stacks, si, ti, x, serpentine, mirror))

(* --------------------------- from_dict inputs -------------------------- *)

\* a tier entry without the origin keys
DimsToDict(tier) == PyDict([rows |-> PyIntVal(tier.rows), cols |-> PyIntVal(tier.cols)])
DocOf(entries) ==
  PyDict([stacks |-> PyList([s \in 1..Len(entries) |-> PyList(entries[s])])])

\* values a field may hold in place of an integer
FieldValues ==
  {PyIntVal(0), PyIntVal(-1), PyIntVal(2), PyNone, PyBool(TRUE), PyFloat(5),
   PyStr(<<"2">>), PyStr(<<" ", "1", "_", "0">>), PyStr(<<"-", "1">>), PyStr(<<"x">>),
   PyStr(<<>>), PyList(<<>>)}
WithField(d, k, x) == PyDict([f \in DOMAIN d.dict \cup {k} |-> IF f = k THEN x ELSE d.dict[f]])
TierEntries ==
  {TierToDict(BaseTier), DimsToDict(BaseTier),
   PyNone, PyIntVal(3), PyList(<<>>), PyStr(<<"r">>),
   PyDict([cols |-> PyIntVal(1)]), PyDict([rows |-> PyIntVal(1)]),
   PyDict([origin_row |-> PyIntVal(1)]), PyDict([rows |-> PyNone]),
   PyDict([cols |-> PyNone])}
  \cup {WithField(DimsToDict(BaseTier), k, x) :
          k \in {"rows", "cols", "origin_row", "origin_col"}, x \in FieldValues}
StackEntries ==
  {PyNone, PyIntVal(1), PyDict([rows |-> PyIntVal(1)]), PyStr(<<>>), PyStr(<<"a", "b">>),
   PyList(<<>>), PyList(<<TierToDict(BaseTier)>>)}

\* documents of several stacks and tiers without origins, valid or not as layouts
PoolDocs ==
  {DocOf([s \in 1..Len(S) |-> [t \in 1..Len(S[s]) |-> DimsToDict(S[s][t])]]) : S \in PoolInputs}
\* documents of one tier entry, as it should be or not, alone or after another entry
\* that is accepted or refused in one of the ways there are
FirstEntries ==
  {TierToDict(BaseTier), PyIntVal(3), PyDict([rows |-> PyNone]), PyDict([rows |-> PyIntVal(1)]),
   WithField(DimsToDict(BaseTier), "cols", PyStr(<<"x">>)),
   WithField(DimsToDict(BaseTier), "cols", PyIntVal(0))}
EntryDocs ==
  {DocOf(<<<<e>>>>) : e \in TierEntries}
    \cup {DocOf(<<<<d, e>>>>) : d \in FirstEntries, e \in TierEntries}
\* documents whose stack entries or top level are not as they should be
ShapeDocs ==
  {PyDict([stacks |-> PyList(<<d, e>>)]) : d \in StackEntries, e \in StackEntries}
    \cup {PyDict([stacks |-> x]) : x \in {PyNone, PyIntVal(1), PyStr(<<"a">>),
                                          PyDict([rows |-> PyIntVal(1)])}}
    \cup {PyDict([tiers |-> PyList(<<>>)]), PyList(<<>>), PyNone, PyIntVal(1),
          PyStr(<<"s">>)}
Docs == PoolDocs \cup EntryDocs \cup ShapeDocs

Tiles == {PyInt(n) : n \in (-1)..MaxTiles}
FewTiles == {PyInt(n) : n \in {-1, 0, 1, 2, MaxTiles}}

(* ---------------------------- specification ---------------------------- *)

Init ==
  /\ heap = <<>>
  /\ self_stacks = <<>>
  /\ args = <<>>
  /\ built = NoOp
  /\ op = NoOp
  /\ result = NoRet

Next ==
  \/ MakeTier
  \/ Construct(PoolInputs \cup CornerInputs)
  \/ Uniform(0..MaxStacks, 0..MaxTiers, FewTiles)
  \/ FromDictCall(Docs)
  \/ FromDictOfToDict
  \/ StackCountCall
  \/ TierCountCall
  \/ TierCall(StackIdxs, TierIdxs)
  \/ StackCall(StackIdxs)
  \/ TierCapacityCall(StackIdxs, TierIdxs)
  \/ TierShapeCall(StackIdxs, TierIdxs)
  \/ TierOriginCall(StackIdxs, TierIdxs)
  \/ MaxCapacityCall
  \/ StackCapacityCall(StackIdxs)
  \/ IterTiersCall
  \/ StackOriginCall(StackIdxs)
  \/ StackShapeCall(StackIdxs)
  \/ GlobalShapeCall
  \/ ToDictCall
  \/ PositionFromIndexCall({0}, {0}, {-1, 0, MaxDim * MaxDim})

Spec == Init /\ [][Next]_vars

(* Positions: layouts of one tier at the extreme origins, of several tiers, and uniform
   ones, addressed at the first and last stack and tier of the largest layout. *)
MixedInputs ==
  {[s \in 1..MaxStacks |-> [t \in 1..MaxTiers |-> IF (s = 1) = (t = 1) THEN a ELSE b]] :
     a \in PoolTiers, b \in PoolTiers}

NextAddr ==
  \/ Construct(MixedInputs \cup CornerInputs)
  \/ Uniform({1, MaxStacks}, {1, MaxTiers}, Tiles)
  \/ PositionFromIndexCall({0, MaxStacks - 1}, {0, MaxTiers - 1}, TileIdxs)

SpecAddr == Init /\ [][NextAddr]_vars

(* uniform on integers beyond a double's 53 bits: 2^e + d and 2^e - d *)
BigExps == {31, 40, 52, 53, 54, 60}
BigTiles ==
  {[neg |-> FALSE, mag |-> Add(Pow2Bits(e), ToBits(d))] : e \in BigExps, d \in 0..3}
    \cup {[neg |-> FALSE, mag |-> Sub(Pow2Bits(e), ToBits(d))] : e \in BigExps, d \in 1..3}
    \cup {[neg |-> FALSE, mag |-> Pow2Bits(MaxFloatBits)]}

NextUniform ==
  \/ Uniform(0..MaxStacks, 0..MaxTiers, Tiles \cup BigTiles)
  \/ StackCountCall
  \/ TierCountCall
  \/ TierShapeCall(StackIdxs, TierIdxs)
  \/ TierOriginCall(StackIdxs, TierIdxs)

SpecUniform == Init /\ [][NextUniform]_vars

(* ------------------------- what the caller holds ----------------------- *)
(* The caller keeps the lists it passed to ChipletLayout(stacks), the list *)
(* stack() returned and the dict to_dict() returned, and changes them.     *)

\* stacks[i].clear() on a list that was passed to the constructor
ArgClear ==
  /\ HasInstance
  /\ \E i \in 1..Len(args) :
       /\ heap[args[i]] # <<>>
       /\ heap' = [heap EXCEPT ![args[i]] = <<>>]
       /\ op' = [name |-> "list.clear", args |-> <<args[i]>>]
       /\ UNCHANGED <<self_stacks, args, built, result>>

HoldsList == op.name \in {"stack", "list.append", "list.pop"} /\ Returned(result)

\* layout.stack(i).append(tier) on the list stack() returned
ReturnedAppend ==
  /\ HasInstance
  /\ HoldsList
  /\ Len(heap[result.val]) < MaxTiers
  /\ heap' = [heap EXCEPT ![result.val] = Append(@, BaseTier)]
  /\ op' = [name |-> "list.append", args |-> <<result.val>>]
  /\ UNCHANGED <<self_stacks, args, built, result>>

\* layout.stack(i).pop() on the list stack() returned
ReturnedPop ==
  /\ HasInstance
  /\ HoldsList
  /\ heap[result.val] # <<>>
  /\ heap' = [heap EXCEPT ![result.val] = SubSeq(@, 1, Len(@) - 1)]
  /\ op' = [name |-> "list.pop", args |-> <<result.val>>]
  /\ UNCHANGED <<self_stacks, args, built, result>>

\* layout.to_dict()["stacks"].clear() on the dict to_dict() returned
ReturnedDictClear ==
  /\ HasInstance
  /\ op.name = "to_dict"
  /\ op' = [name |-> "dict.clear", args |-> <<>>]
  /\ result' = Return(PyDict([stacks |-> PyList(<<>>)]))
  /\ UNCHANGED <<heap, self_stacks, args, built>>

AliasInputs ==
  {<<<<BaseTier>>>>, <<<<BaseTier>>, <<BaseTier>>>>} \cup {<<<<t, t>>>> : t \in PoolTiers}
EndIdxs(n) == {-1, 0, n - 1, n}

NextAlias ==
  \/ Construct(AliasInputs)
  \/ ArgClear
  \/ ReturnedAppend
  \/ ReturnedPop
  \/ ReturnedDictClear
  \/ StackCountCall
  \/ TierCountCall
  \/ TierCall(EndIdxs(MaxStacks), EndIdxs(MaxTiers))
  \/ StackCall(EndIdxs(MaxStacks))
  \/ TierCapacityCall({0}, EndIdxs(MaxTiers))
  \/ TierShapeCall({0}, EndIdxs(MaxTiers))
  \/ TierOriginCall({0}, EndIdxs(MaxTiers))
  \/ MaxCapacityCall
  \/ StackCapacityCall(EndIdxs(MaxStacks))
  \/ IterTiersCall
  \/ StackOriginCall(EndIdxs(MaxStacks))
  \/ StackShapeCall(EndIdxs(MaxStacks))
  \/ GlobalShapeCall
  \/ ToDictCall
  \/ PositionFromIndexCall({0}, EndIdxs(MaxTiers), {0})

SpecAlias == Init /\ [][NextAlias]_vars

(* ------------------------------- claims -------------------------------- *)

Builders == {"ChipletLayout", "uniform", "from_dict"}

\* the layout invariant: a stack, no empty stack, one tier count, positive dimensions
ValidLayout(S) ==
  /\ Len(S) >= 1
  /\ \A s \in 1..Len(S) :
       /\ Len(S[s]) >= 1
       /\ Len(S[s]) = Len(S[1])
       /\ \A t \in 1..Len(S[s]) : S[s][t].rows > 0 /\ S[s][t].cols > 0

\* C1: every construction path either fails with ValueError and leaves no instance,
\* or leaves a layout with a stack, no empty stack, equal tier counts (tier_count())
\* and positive dimensions; ChipletLayout(stacks) fails exactly when stacks is empty,
\* a stack is empty, or two stacks differ in length.
C1_ConstructionAllOrNothing ==
  op.name \in Builders =>
    /\ \/ Raised(result, "ValueError") /\ ~HasInstance
       \/ /\ Returned(result) /\ HasInstance /\ ValidLayout(Stacks)
          /\ \A s \in 1..Len(Stacks) : Len(Stacks[s]) = TierCount(Stacks)
    /\ op.name = "ChipletLayout" =>
         LET stacks == op.args[1]
         IN result.kind = "raise" <=>
              \/ Len(stacks) = 0
              \/ \E s \in 1..Len(stacks) : Len(stacks[s]) = 0
              \/ \E s, u \in 1..Len(stacks) : Len(stacks[s]) # Len(stacks[u])

\* C3: from_dict(x.to_dict()) succeeds with x's stack count and tier count and, at
\* every (stack, tier), x's rows, cols, origin_row and origin_col.
C3_RoundTrip ==
  op.name = "from_dict(to_dict)" =>
    /\ Returned(result)
    /\ Len(result.val) = StackCount(Stacks)
    /\ \A s \in 1..Len(Stacks) :
         /\ Len(result.val[s]) = TierCount(Stacks)
         /\ \A t \in 1..Len(Stacks[s]) :
              /\ result.val[s][t].rows = Stacks[s][t].rows
              /\ result.val[s][t].cols = Stacks[s][t].cols
              /\ result.val[s][t].origin_row = Stacks[s][t].origin_row
              /\ result.val[s][t].origin_col = Stacks[s][t].origin_col

\* a round trip of a layout of MaxStacks stacks of MaxTiers tiers, not all alike,
\* with an origin off zero
C3_Witness ==
  /\ op.name = "from_dict(to_dict)"
  /\ Returned(result)
  /\ Len(Stacks) = MaxStacks /\ Len(Stacks[1]) = MaxTiers
  /\ Stacks[1][1] # Stacks[MaxStacks][MaxTiers]
  /\ Stacks[1][1].origin_row # Stacks[1][1].origin_col
  /\ Stacks[1][1].rows # Stacks[1][1].cols

\* C6: tier, tier_capacity, tier_shape, tier_origin, stack, stack_capacity and
\* position_from_index fail with IndexError for every stack_idx outside
\* [0, stack_count()) and every tier_idx outside [0, tier_count()), negative ones
\* included, and for no index inside those ranges.
C6_IndexBounds ==
  LET stack_ok == op.args[1] \in 0..(StackCount(Stacks) - 1)
      tier_ok == op.args[2] \in 0..(TierCount(Stacks) - 1)
  IN /\ op.name \in {"stack", "stack_capacity"} =>
          (Raised(result, "IndexError") <=> ~stack_ok) /\ (Returned(result) <=> stack_ok)
     /\ op.name \in {"tier", "tier_capacity", "tier_shape", "tier_origin"} =>
          /\ Raised(result, "IndexError") <=> ~(stack_ok /\ tier_ok)
          /\ Returned(result) <=> (stack_ok /\ tier_ok)
     /\ op.name = "position_from_index" =>
          /\ ~(stack_ok /\ tier_ok) => Raised(result, "IndexError")
          /\ Returned(result) => stack_ok /\ tier_ok

\* the interchange schema: a mapping with a list "stacks" of lists of mappings that
\* hold integers under "rows" and "cols" and, where present, under the origin keys
IsInteger(x) == TypeOf(x) = "int"
ConformingTier(e) ==
  /\ TypeOf(e) = "dict"
  /\ {"rows", "cols"} \subseteq DOMAIN e.dict
  /\ \A k \in DOMAIN e.dict \cap {"rows", "cols", "origin_row", "origin_col"} :
       IsInteger(e.dict[k])
ConformingDoc(data) ==
  /\ TypeOf(data) = "dict"
  /\ "stacks" \in DOMAIN data.dict
  /\ TypeOf(data.dict["stacks"]) = "list"
  /\ \A s \in 1..Len(data.dict["stacks"].list) :
       LET stack == data.dict["stacks"].list[s]
       IN /\ TypeOf(stack) = "list"
          /\ \A t \in 1..Len(stack.list) : ConformingTier(stack.list[t])

\* C7: from_dict fails with ValueError, and with nothing else, on every input off the
\* schema (top level not a mapping or without a "stacks" sequence, a stack entry not a
\* sequence, a tier entry not a mapping or without "rows" or "cols", a field that is
\* not an integer); on an input of the schema it fails with nothing but ValueError,
\* and the tiers it yields have origin 0 where the origin key is absent.
C7_FromDictValidation ==
  op.name = "from_dict" =>
    LET data == op.args[1]
    IN /\ ~ConformingDoc(data) => Raised(result, "ValueError")
       /\ result.kind = "raise" => result.val = "ValueError"
       /\ ConformingDoc(data) /\ Returned(result) =>
            \A s \in 1..Len(Stacks) : \A t \in 1..Len(Stacks[s]) :
              LET e == data.dict["stacks"].list[s].list[t].dict
              IN /\ "origin_row" \notin DOMAIN e => Stacks[s][t].origin_row = 0
                 /\ "origin_col" \notin DOMAIN e => Stacks[s][t].origin_col = 0

\* C8: global_shape() returns (H, W), H the greatest origin_row + rows less the least
\* origin_row over all tiers, W likewise for columns; so every tier lies within the
\* box from the least origins, and H > 0, W > 0.
C8_GlobalShape ==
  op.name = "global_shape" =>
    LET all == {Stacks[s][t] : s \in 1..Len(Stacks), t \in 1..Len(Stacks[1])}
        min_row == SetMin({t.origin_row : t \in all})
        min_col == SetMin({t.origin_col : t \in all})
        H == result.val[1]
        W == result.val[2]
    IN /\ Returned(result)
       /\ H = SetMax({t.origin_row + t.rows : t \in all}) - min_row
       /\ W = SetMax({t.origin_col + t.cols : t \in all}) - min_col
       /\ \A t \in all :
            /\ min_row <= t.origin_row /\ t.origin_row + t.rows <= min_row + H
            /\ min_col <= t.origin_col /\ t.origin_col + t.cols <= min_col + W
       /\ H > 0 /\ W > 0

\* global_shape() of a layout whose box is larger than each of its tiers, the extreme
\* tier of neither kind being the first
C8_Witness ==
  /\ op.name = "global_shape"
  /\ Returned(result)
  /\ Len(Stacks) = MaxStacks
  /\ \A s \in 1..Len(Stacks) : \A t \in 1..Len(Stacks[s]) :
       Stacks[s][t].rows < result.val[1] /\ Stacks[s][t].cols < result.val[2]
  /\ Stacks[1][1].origin_row > Stacks[MaxStacks][1].origin_row

\* the cells of a tier
Cells(t) ==
  {<<t.origin_row + r, t.origin_col + c>> : r \in 0..(t.rows - 1), c \in 0..(t.cols - 1)}

\* C2: for every tier and every (serpentine, mirror), position_from_index on
\* [0, capacity) is a bijection onto the tier's cells: the position returned for an
\* index is a cell, no other index has it, and every cell is the position of an index.
C2_Bijection ==
  op.name = "position_from_index" /\ Returned(result) =>
    LET tier == Tier(Stacks, op.args[1], op.args[2]).val
        at(j) == PositionFromIndex(Stacks, op.args[1], op.args[2], j, op.args[4], op.args[5])
        indices == 0..(tier.rows * tier.cols - 1)
    IN /\ result.val \in Cells(tier)
       /\ \A j \in indices \ {op.args[3]} : Returned(at(j)) /\ at(j).val # result.val
       /\ \A cell \in Cells(tier) : \E j \in indices : at(j).val = cell

\* the last index of a tier of several rows and columns, serpentine and mirrored
C2_Witness ==
  /\ op.name = "position_from_index" /\ Returned(result)
  /\ op.args[4] /\ op.args[5]
  /\ LET tier == Tier(Stacks, op.args[1], op.args[2]).val
     IN tier.rows >= 2 /\ tier.cols >= 3 /\ op.args[3] = tier.rows * tier.cols - 1

\* C5: for a valid (stack_idx, tier_idx), position_from_index raises IndexError when
\* tile_index < 0 or tile_index >= capacity of the tier, and returns for every
\* tile_index in [0, capacity), padding cells of a uniform layout included.
C5_TileBounds ==
  /\ op.name = "position_from_index"
  /\ op.args[1] \in 0..(StackCount(Stacks) - 1)
  /\ op.args[2] \in 0..(TierCount(Stacks) - 1)
  => LET tier == Stacks[op.args[1] + 1][op.args[2] + 1]
         inside == 0 <= op.args[3] /\ op.args[3] < tier.rows * tier.cols
     IN /\ ~inside => Raised(result, "IndexError")
        /\ inside => Returned(result)

\* a padding cell: uniform built for fewer tiles than its tier holds, addressed at an
\* index no less than that number
C5_Witness ==
  /\ built.name = "uniform"
  /\ op.name = "position_from_index" /\ Returned(result)
  /\ op.args[3] >= FromBits(built.args[3].mag)

\* C9: position_from_index returns the result of these steps in this order:
\* row = tile_index div cols, col = tile_index mod cols; if serpentine and row is odd,
\* col = cols - 1 - col; then if mirror, row = rows - 1 - row and col = cols - 1 - col;
\* result (origin_row + row, origin_col + col).  On a 3x3 tier at origin (0, 0):
\* index 4 plain gives (1, 1), index 5 serpentine (1, 0), index 0 mirror (2, 2).
C9_StepOrder ==
  op.name = "position_from_index" /\ Returned(result) =>
    LET tier == Tier(Stacks, op.args[1], op.args[2]).val
        row == op.args[3] \div tier.cols
        col == op.args[3] % tier.cols
        turned == IF op.args[4] /\ row % 2 = 1 THEN tier.cols - 1 - col ELSE col
        expected == IF op.args[5]
                      THEN <<tier.origin_row + (tier.rows - 1 - row),
                             tier.origin_col + (tier.cols - 1 - turned)>>
                      ELSE <<tier.origin_row + row, tier.origin_col + turned>>
    IN /\ result.val = expected
       /\ tier = TierLayout(3, 3, 0, 0) =>
            /\ op.args[3] = 4 /\ ~op.args[4] /\ ~op.args[5] => result.val = <<1, 1>>
            /\ op.args[3] = 5 /\ op.args[4] /\ ~op.args[5] => result.val = <<1, 0>>
            /\ op.args[3] = 0 /\ ~op.args[4] /\ op.args[5] => result.val = <<2, 2>>

\* serpentine and mirror together on the odd row of a tier of two rows
C9_Witness ==
  /\ op.name = "position_from_index" /\ Returned(result)
  /\ op.args[4] /\ op.args[5]
  /\ LET tier == Tier(Stacks, op.args[1], op.args[2]).val
     IN tier.rows = 2 /\ tier.cols >= 2 /\ op.args[3] = tier.cols

\* C4: for num_stacks, num_tiers, tiles_per_tier > 0, uniform returns a layout of
\* num_stacks stacks of num_tiers tiers, every tier with rows = ceil(sqrt(tiles_per_tier))
\* (the least r with r * r >= tiles_per_tier) and cols = ceil(tiles_per_tier / rows)
\* (the least c with rows * c >= tiles_per_tier), so of capacity >= tiles_per_tier;
\* uniform(1, 1, 5) gives shape (3, 2).  The comparisons are of exact integers.
C4_UniformDims ==
  op.name = "uniform" /\ op.args[1] > 0 /\ op.args[2] > 0 /\ IsPositive(op.args[3]) =>
    /\ Returned(result) /\ HasInstance
    /\ Len(Stacks) = op.args[1]
    /\ \A s \in 1..Len(Stacks) :
         /\ Len(Stacks[s]) = op.args[2]
         /\ \A t \in 1..Len(Stacks[s]) :
              LET k == op.args[3].mag
                  r == ToBits(Stacks[s][t].rows)
                  c == ToBits(Stacks[s][t].cols)
              IN /\ Leq(k, Mul(r, r))
                 /\ Less(Mul(Sub(r, <<1>>), Sub(r, <<1>>)), k)
                 /\ Leq(k, Mul(r, c))
                 /\ Less(Mul(r, Sub(c, <<1>>)), k)
                 /\ k = ToBits(5) => Stacks[s][t].rows = 3 /\ Stacks[s][t].cols = 2

\* C10: once built, the layout's stacks and tiers never change, whatever its
\* operations are called with and whatever the caller does to the lists it passed to
\* the constructor, to the list stack() returned or to the dict to_dict() returned;
\* so the layout invariant keeps holding.
C10_NeverMutated ==
  [][HasInstance => Stacks' = Stacks /\ ValidLayout(Stacks')]_vars

\* |r1 - r2| + |c1 - c2| of two cells
Manhattan(a, b) ==
  (IF a[1] >= b[1] THEN a[1] - b[1] ELSE b[1] - a[1])
    + (IF a[2] >= b[2] THEN a[2] - b[2] ELSE b[2] - a[2])

\* C11: serpentine traversal is contiguous: for every tier and either value of
\* mirror, with serpentine = true the cells position_from_index returns for two
\* consecutive indices i and i + 1 (0 <= i, i + 1 < capacity) are at Manhattan
\* distance exactly 1, across a row boundary too; with serpentine = false and
\* cols > 1 the distance is not 1 at every row boundary (i + 1 a multiple of cols).
C11_SerpentineContiguous ==
  op.name = "position_from_index" /\ Returned(result) =>
    LET tier == Tier(Stacks, op.args[1], op.args[2]).val
        i == op.args[3]
        next == PositionFromIndex(Stacks, op.args[1], op.args[2], i + 1, op.args[4], op.args[5])
    IN i + 1 < tier.rows * tier.cols =>
         /\ Returned(next)
         /\ op.args[4] => Manhattan(result.val, next.val) = 1
         /\ ~op.args[4] /\ tier.cols > 1 /\ (i + 1) % tier.cols = 0 =>
              Manhattan(result.val, next.val) # 1

\* the last index of an odd row, serpentine and mirrored, with a row after it
C11_Witness ==
  /\ op.name = "position_from_index" /\ Returned(result)
  /\ op.args[4] /\ op.args[5]
  /\ LET tier == Tier(Stacks, op.args[1], op.args[2]).val
     IN tier.rows >= 3 /\ tier.cols >= 2 /\ op.args[3] = 2 * tier.cols - 1

====
